---- MODULE Spec2Model ----
(***************************************************************************)
(* A model of the TSLA dashboard: the two data loaders (chatbot.py,        *)
(* data_processor.py), the frame/band builder (app.py), the query          *)
(* responder (chatbot.py) and the re-run driven assistant view (app.py).   *)
(*                                                                         *)
(* Conventions.                                                            *)
(*  - A Python value held in a Support/Resistance cell is a record         *)
(*    [t, n, items]: t is its type ("list", "tuple", "int", "nan"), n the  *)
(*    number of an int, items the elements of a list or a tuple.           *)
(*  - A timestamp is the ordinal of the parsed date-time.                  *)
(*  - Prices are whole numbers; the float products low*0.99, high*1.01     *)
(*    and the plain close of the marker traces are kept in hundredths      *)
(*    (low*99, high*101, close*100).                                       *)
(*  - Text (a cell, an error message, a reply) is a sequence of            *)
(*    one-character strings.                                               *)
(***************************************************************************)
EXTENDS Integers, Sequences, FiniteSets, TLC

VARIABLES
    file,          \* the rows of the CSV file: their fields, in file order
    df,            \* the DataFrame a loader leaves (chatbot.df), <<>> before
    load_pc,       \* "init", "chatbot", "data_processor", "raised"
    frames,        \* what create_candlestick_animation returned
    anim_frames,   \* what get_animation_frames returned
    markers,       \* what calculate_direction_markers returned
    fb_pc,         \* the builders that have run (a set of their names)
    call,          \* the pending generate_response call: question, remote outcome
    result,        \* what generate_response did: returned a string, or raised
    chat_history,  \* st.session_state.chat_history
    user_input,    \* st.session_state.user_input (the text_input's value)
    cached,        \* st.cache_resource holds a TSLChatbot
    rerun,         \* st.experimental_rerun() was called: a re-run is queued
    submitted,     \* questions the user has submitted
    requests,      \* calls of model.generate_content
    answered,      \* the <<question, answer>> pairs generate_response returned, in order
    run            \* the run of main() in progress: its place and its locals

vars == <<file, df, load_pc, frames, anim_frames, markers, fb_pc, call, result,
          chat_history, user_input, cached, rerun, submitted, requests,
          answered, run>>

loadVars  == <<file, df, load_pc>>
frameVars == <<frames, anim_frames, markers, fb_pc>>
chatVars  == <<call, result>>
appVars   == <<chat_history, user_input, cached, rerun, submitted, requests,
               answered, run>>

(***************************************************************************)
(* Python values and the builtins the code applies to them.                *)
(***************************************************************************)
PyInt(k)      == [t |-> "int",   n |-> k, items |-> <<>>]
PyList(xs)    == [t |-> "list",  n |-> 0, items |-> xs]
PyTuple(xs)   == [t |-> "tuple", n |-> 0, items |-> xs]
PyFloat(k)    == [t |-> "float", n |-> k, items |-> <<>>]
PyNaN         == [t |-> "nan",   n |-> 0, items |-> <<>>]

Reverse(s) == [j \in 1..Len(s) |-> s[Len(s) + 1 - j]]

\* min(xs) for a non-empty sequence of ints (a single element of any type is
\* returned as it is: Python compares nothing).
RECURSIVE py_min_from(_, _, _)
py_min_from(xs, k, best) ==
    IF k > Len(xs) THEN best
    ELSE py_min_from(xs, k + 1, IF xs[k].n < best.n THEN xs[k] ELSE best)

py_min(xs) == py_min_from(xs, 2, xs[1])

RECURSIVE py_max_from(_, _, _)
py_max_from(xs, k, best) ==
    IF k > Len(xs) THEN best
    ELSE py_max_from(xs, k + 1, IF xs[k].n > best.n THEN xs[k] ELSE best)

py_max(xs) == py_max_from(xs, 2, xs[1])

(***************************************************************************)
(* The fields of the file, the cells read_csv makes of them, and the       *)
(* Python parser behind eval and ast.literal_eval.  A field is empty       *)
(* (NaNCell) or holds text (StrCell).                                      *)
(***************************************************************************)
MaxCellLen == 3

Chars  == {"[", "]", ",", " ", "1", "2"}
Digits == {"1", "2"}

DigitValue(c) == IF c = "1" THEN 1 ELSE 2

RECURSIVE TextsOfLen(_)
TextsOfLen(k) ==
    IF k = 0 THEN {<<>>}
    ELSE {Append(s, c) : s \in TextsOfLen(k - 1), c \in Chars}

Texts == UNION {TextsOfLen(k) : k \in 1..MaxCellLen}

NaNCell      == [t |-> "nan",   n |-> 0, text |-> <<>>]
StrCell(s)   == [t |-> "str",   n |-> 0, text |-> s]
IntCell(k)   == [t |-> "int",   n |-> k, text |-> <<>>]
FloatCell(k) == [t |-> "float", n |-> k, text |-> <<>>]
Cells        == {NaNCell} \cup {StrCell(s) : s \in Texts}

EmptyListText == <<"[", "]">>
BaseCell      == StrCell(<<"[", "1", ",", "2", "]">>)

\* The list cells of a well-formed file, and one cell that evaluates to a
\* tuple, not a list.
ListCells ==
    { StrCell(EmptyListText), StrCell(<<"[", "1", "]">>),
      StrCell(<<"[", "2", ",", "1", "]">>), StrCell(<<"1", ",", "2">>) }

KnownCells == ListCells \cup {BaseCell}

\* The tokens of a text: "[", "]", "," and the numbers (maximal digit runs);
\* blanks separate tokens.  cur is the number being read, -1 when none is.
Tok(kind, k) == [kind |-> kind, n |-> k]

RECURSIVE tokenize(_, _, _, _)
tokenize(s, k, toks, cur) ==
    LET flushed == IF cur >= 0 THEN Append(toks, Tok("num", cur)) ELSE toks IN
    IF k > Len(s) THEN flushed
    ELSE IF s[k] \in Digits
         THEN tokenize(s, k + 1, toks,
                       IF cur < 0 THEN DigitValue(s[k])
                                  ELSE cur * 10 + DigitValue(s[k]))
         ELSE IF s[k] = " "
              THEN tokenize(s, k + 1, flushed, -1)
              ELSE tokenize(s, k + 1, Append(flushed, Tok(s[k], 0)), -1)

ParseFail == [ok |-> FALSE, val |-> PyNaN, pos |-> 0]

\* expr      ::= NUMBER | "[" [ expr ("," expr)* [","] ] "]"
\* testlist  ::= expr ("," expr)* [","]           (one or more commas: a tuple)
\* A primary followed by "[" is a subscript; in a text of fewer than eight
\* characters of this alphabet no subscript evaluates (the index is out of
\* range, the object is not subscriptable, or literal_eval refuses the
\* node), so it fails like a syntax error does.
RECURSIVE parse_expr(_, _)
RECURSIVE parse_seq(_, _, _, _, _)
parse_expr(toks, pos) ==
    IF pos > Len(toks) THEN ParseFail
    ELSE IF toks[pos].kind = "num"
         THEN [ok |-> TRUE, val |-> PyInt(toks[pos].n), pos |-> pos + 1]
         ELSE IF toks[pos].kind = "["
              THEN parse_seq(toks, pos + 1, <<>>, FALSE, TRUE)
              ELSE ParseFail

\* At the place of an item or of the end, with the items read so far in acc;
\* comma: the last token read was a comma; inList: inside brackets.
parse_seq(toks, pos, acc, comma, inList) ==
    LET atEnd == IF inList THEN pos <= Len(toks) /\ toks[pos].kind = "]"
                           ELSE pos > Len(toks)
        done  == IF inList
                 THEN [ok |-> TRUE, val |-> PyList(acc), pos |-> pos + 1]
                 ELSE IF comma
                      THEN [ok |-> TRUE, val |-> PyTuple(acc), pos |-> pos]
                      ELSE ParseFail
    IN  IF atEnd /\ (inList \/ acc # <<>>) THEN done
        ELSE LET e == parse_expr(toks, pos) IN
             IF ~e.ok THEN ParseFail
             ELSE LET items == Append(acc, e.val)
                      more  == e.pos <= Len(toks) /\ toks[e.pos].kind = ","
                      close == IF inList
                               THEN e.pos <= Len(toks) /\ toks[e.pos].kind = "]"
                               ELSE e.pos > Len(toks)
                  IN  IF more THEN parse_seq(toks, e.pos + 1, items, TRUE, inList)
                      ELSE IF close
                           THEN IF inList
                                THEN [ok |-> TRUE, val |-> PyList(items),
                                      pos |-> e.pos + 1]
                                ELSE [ok |-> TRUE,
                                      val |-> IF comma THEN PyTuple(items)
                                                       ELSE e.val,
                                      pos |-> e.pos]
                           ELSE ParseFail

\* The value of a text as a Python expression, or a failure (SyntaxError,
\* TypeError, IndexError, ValueError: all of them Exceptions).
parse_text(s) ==
    LET toks == tokenize(s, 1, <<>>, -1)
        r    == parse_seq(toks, 1, <<>>, FALSE, FALSE)
    IN  IF r.ok /\ r.pos = Len(toks) + 1 THEN r ELSE ParseFail

Raised(v)   == [raised |-> TRUE,  val |-> v]
Returned(v) == [raised |-> FALSE, val |-> v]

\* eval(x): a NaN cell is a float, and eval of a float or of an int raises
\* TypeError.
eval_cell(x) ==
    IF x.t # "str" THEN Raised(PyNaN)
    ELSE LET r == parse_text(x.text) IN
         IF r.ok THEN Returned(r.val) ELSE Raised(PyNaN)

\* eval is a function of the cell alone: its values on the cells of the
\* well-formed files below are computed once.
EvalTable == [c \in KnownCells |-> eval_cell(c)]

py_eval(x) == IF x \in KnownCells THEN EvalTable[x] ELSE eval_cell(x)

\* ast.literal_eval(s) of a str: lists, tuples and numbers are literals.
literal_eval(s) ==
    LET r == parse_text(s) IN
    IF r.ok THEN Returned(r.val) ELSE Raised(PyNaN)

\* x.replace(' ', '')
str_replace_blank(s) == SelectSeq(s, LAMBDA c : c # " ")

\* process_list_string(x) of load_tsla_data: what is no str is returned as
\* it is.
process_list_string(x) ==
    IF x.t = "nan" \/ (x.t = "str" /\ x.text = EmptyListText) THEN PyList(<<>>)
    ELSE IF x.t = "str"
         THEN LET r == literal_eval(str_replace_blank(x.text)) IN
              IF r.raised THEN PyList(<<>>) ELSE r.val
         ELSE IF x.t = "int" THEN PyInt(x.n) ELSE PyFloat(x.n)

(***************************************************************************)
(* The rows of the CSV file and the two loaders.                           *)
(***************************************************************************)
MaxLoadRows == 3
MaxTime     == 2

Directions == {"LONG", "SHORT", "HOLD", "NaN"}   \* "NaN": the field is missing

\* The prices of the k-th row of the file (fixture values, all different).
OpenOf(k)  == 100 + 2 * k
CloseOf(k) == 101 + 2 * k
HighOf(k)  == 105 + 2 * k
LowOf(k)   == 95 + 2 * k

RawRow(k, ts, dir, sup, res) ==
    [timestamp |-> ts, open |-> OpenOf(k), high |-> HighOf(k), low |-> LowOf(k),
     close |-> CloseOf(k), direction |-> dir, Support |-> sup, Resistance |-> res]

\* pd.read_csv settles the type of a column on all of its fields.  A field
\* is a number when it is a run of digits between blanks; a column whose
\* fields are all numbers is an int64 column, one whose fields are numbers
\* and empty fields is a float64 column, and every other column is an object
\* column, whose cells are the texts of the fields and NaN.
is_number(field) ==
    /\ field.t = "str"
    /\ LET toks == tokenize(field.text, 1, <<>>, -1) IN
         Len(toks) = 1 /\ toks[1].kind = "num"

number_of(field) == tokenize(field.text, 1, <<>>, -1)[1].n

column_dtype(file_, col) ==
    IF \E k \in 1..Len(file_) : file_[k][col].t = "str" /\ ~is_number(file_[k][col])
    THEN "object"
    ELSE IF \A k \in 1..Len(file_) : file_[k][col].t = "str" THEN "int64"
         ELSE "float64"

read_cell(file_, k, col) ==
    LET dtype == column_dtype(file_, col) IN
    IF dtype = "object" \/ file_[k][col].t = "nan" THEN file_[k][col]
    ELSE IF dtype = "int64" THEN IntCell(number_of(file_[k][col]))
         ELSE FloatCell(number_of(file_[k][col]))

read_csv(file_) ==
    [k \in 1..Len(file_) |->
        [file_[k] EXCEPT !.Support = read_cell(file_, k, "Support"),
                         !.Resistance = read_cell(file_, k, "Resistance")]]

\* TSLChatbot.load_data: read_csv, to_datetime, then eval applied to the two
\* list columns; any exception is printed and raised again.  The rows keep
\* the order of the file and the index 0..N-1 read_csv gave them.
chatbot_row(table, k) ==
    [index |-> k - 1, timestamp |-> table[k].timestamp,
     open |-> table[k].open, high |-> table[k].high, low |-> table[k].low,
     close |-> table[k].close, direction |-> table[k].direction,
     Support |-> py_eval(table[k].Support).val,
     Resistance |-> py_eval(table[k].Resistance).val]

load_data(file_) ==
    LET table == read_csv(file_) IN
    IF \E k \in 1..Len(table) :
           py_eval(table[k].Support).raised \/ py_eval(table[k].Resistance).raised
    THEN Raised(<<>>)
    ELSE Returned([k \in 1..Len(table) |-> chatbot_row(table, k)])

\* bool(x) of a cell value, and `min(x) if x else np.nan` (max alike).  min
\* of a number raises TypeError, and so does min of a list that mixes numbers
\* and lists.
truthy(v) == IF v.t \in {"int", "float"} THEN v.n # 0 ELSE Len(v.items) > 0

min_raises(v) ==
    truthy(v) /\ (\/ v.t \in {"int", "float"}
                  \/ \E i, j \in 1..Len(v.items) : v.items[i].t # v.items[j].t)

band_lower(v) == IF truthy(v) THEN py_min(v.items) ELSE PyNaN
band_upper(v) == IF truthy(v) THEN py_max(v.items) ELSE PyNaN

\* load_tsla_data up to the sort: Date, the renamed price columns, the parsed
\* list columns and the four band columns.
processor_row(table, k) ==
    LET sup == process_list_string(table[k].Support)
        res == process_list_string(table[k].Resistance)
    IN  [index |-> k - 1, timestamp |-> table[k].timestamp,
         Date |-> table[k].timestamp,
         Open |-> table[k].open, High |-> table[k].high, Low |-> table[k].low,
         Close |-> table[k].close, direction |-> table[k].direction,
         Support |-> sup, Resistance |-> res,
         Support_Lower |-> band_lower(sup), Support_Upper |-> band_upper(sup),
         Resistance_Lower |-> band_lower(res),
         Resistance_Upper |-> band_upper(res)]

processor_raises(table) ==
    \E k \in 1..Len(table) :
        \/ min_raises(process_list_string(table[k].Support))
        \/ min_raises(process_list_string(table[k].Resistance))

\* df.sort_values('Date'): the default kind is quicksort, which promises the
\* order of the keys and nothing about rows with equal keys.
Orders(n) == {p \in [1..n -> 1..n] : \A i, j \in 1..n : i # j => p[i] # p[j]}

sort_values(rows) ==
    {[k \in 1..Len(rows) |-> rows[p[k]]] :
        p \in {q \in Orders(Len(rows)) :
                 \A k \in 1..(Len(rows) - 1) : rows[q[k]].Date <= rows[q[k + 1]].Date}}

load_tsla_data(file_) ==
    LET table == read_csv(file_) IN
    IF processor_raises(table) THEN {Raised(<<>>)}
    ELSE {Returned(d) :
            d \in sort_values([k \in 1..Len(table) |-> processor_row(table, k)])}

(***************************************************************************)
(* The frame/band builder of app.py and the builders of data_processor.py. *)
(***************************************************************************)
MinFrame == 10          \* range(10, len(df) + 1)
FrameDuration == 100    \* frame_duration: int = 100

\* df.iloc[:i]
iloc(d, i) == SubSeq(d, 1, IF i < Len(d) THEN i ELSE Len(d))

Column(d, f) == [k \in 1..Len(d) |-> d[k][f]]

candle_trace(df_slice) ==
    [type |-> "candlestick", x |-> Column(df_slice, "timestamp"),
     open |-> Column(df_slice, "open"), high |-> Column(df_slice, "high"),
     low |-> Column(df_slice, "low"), close |-> Column(df_slice, "close")]

\* The loop over df_slice.iterrows() that gathers xs, ys_lower and ys_upper
\* of one list column (the lists of a table hold numbers).
RECURSIVE band_points(_, _, _, _)
band_points(df_slice, col, k, acc) ==
    IF k > Len(df_slice) THEN acc
    ELSE LET row == df_slice[k] IN
         IF row[col].t = "list" /\ Len(row[col].items) > 0
         THEN band_points(df_slice, col, k + 1,
                  [xs    |-> Append(acc.xs, row.timestamp),
                   lower |-> Append(acc.lower, py_min(row[col].items).n),
                   upper |-> Append(acc.upper, py_max(row[col].items).n)])
         ELSE band_points(df_slice, col, k + 1, acc)

NoPoints == [xs |-> <<>>, lower |-> <<>>, upper |-> <<>>]

\* sup_band / res_band: the polygon, or the empty Scatter of the else branch.
\* (variant: the lower values first, the upper values on the way back)
band_polygon_swapped(p) ==
    [type |-> "scatter", mode |-> "none", fill |-> "toself",
     x |-> p.xs \o Reverse(p.xs), y |-> p.lower \o Reverse(p.upper)]

band_polygon(p) ==
    [type |-> "scatter", mode |-> "none", fill |-> "toself",
     x |-> p.xs \o Reverse(p.xs), y |-> p.upper \o Reverse(p.lower)]

band_trace(df_slice, col) ==
    LET p == band_points(df_slice, col, 1, NoPoints) IN
    IF p.xs # <<>> THEN band_polygon(p)
    ELSE [type |-> "scatter", mode |-> "none", fill |-> "", x |-> <<>>, y |-> <<>>]

\* The loop that sorts the rows of the slice into the three marker groups.
NoMarkers == [longs_x |-> <<>>, longs_y |-> <<>>, shorts_x |-> <<>>,
              shorts_y |-> <<>>, none_x |-> <<>>, none_y |-> <<>>]

\* (variant: `if` in place of `elif`, so a LONG row reaches the else branch)
marker_step_if(acc, row) ==
    LET a == IF row.direction = "LONG"
             THEN [acc EXCEPT !.longs_x = Append(@, row.timestamp),
                              !.longs_y = Append(@, row.low * 99)]
             ELSE acc
    IN  IF row.direction = "SHORT"
        THEN [a EXCEPT !.shorts_x = Append(@, row.timestamp),
                       !.shorts_y = Append(@, row.high * 101)]
        ELSE [a EXCEPT !.none_x = Append(@, row.timestamp),
                       !.none_y = Append(@, row.close * 100)]

marker_step(acc, row) ==
    IF row.direction = "LONG"
    THEN [acc EXCEPT !.longs_x = Append(@, row.timestamp),
                     !.longs_y = Append(@, row.low * 99)]
    ELSE IF row.direction = "SHORT"
         THEN [acc EXCEPT !.shorts_x = Append(@, row.timestamp),
                          !.shorts_y = Append(@, row.high * 101)]
         ELSE [acc EXCEPT !.none_x = Append(@, row.timestamp),
                          !.none_y = Append(@, row.close * 100)]

RECURSIVE marker_points(_, _, _)
marker_points(df_slice, k, acc) ==
    IF k > Len(df_slice) THEN acc
    ELSE marker_points(df_slice, k + 1, marker_step(acc, df_slice[k]))

marker_trace(xs, ys, symbol) ==
    [type |-> "scatter", mode |-> "markers", symbol |-> symbol, x |-> xs, y |-> ys]

\* go.Frame(data=[candle, sup_band, res_band, long_marker, short_marker,
\* none_marker], name=str(i))
\* (variant: a band without points is left out of the frame)
frame_data_without_empty(candle, sup_band, res_band, long_marker, short_marker, none_marker) ==
    <<candle>> \o (IF sup_band.x = <<>> THEN <<>> ELSE <<sup_band>>)
               \o (IF res_band.x = <<>> THEN <<>> ELSE <<res_band>>)
               \o <<long_marker, short_marker, none_marker>>

frame_data(candle, sup_band, res_band, long_marker, short_marker, none_marker) ==
    <<candle, sup_band, res_band, long_marker, short_marker, none_marker>>

Frame(d, i) ==
    LET df_slice == iloc(d, i)
        m == marker_points(df_slice, 1, NoMarkers)
    IN  [name |-> i,
         data |-> frame_data(candle_trace(df_slice),
                             band_trace(df_slice, "Support"),
                             band_trace(df_slice, "Resistance"),
                             marker_trace(m.longs_x, m.longs_y, "triangle-up"),
                             marker_trace(m.shorts_x, m.shorts_y, "triangle-down"),
                             marker_trace(m.none_x, m.none_y, "circle"))]

\* range(a, b) as the sequence a, a+1, ..., b-1
py_range(a, b) == [k \in 1..(b - a) |-> a + k - 1]

create_candlestick_animation(d) ==
    LET r == py_range(MinFrame, Len(d) + 1) IN
    [k \in 1..Len(r) |-> Frame(d, r[k])]

\* data_processor.get_animation_frames
get_animation_frames(d) ==
    LET r == py_range(1, Len(d) + 1) IN
    [k \in 1..Len(r) |-> [data |-> iloc(d, r[k]), duration |-> FrameDuration]]

\* data_processor.calculate_direction_markers, on the renamed columns
direction_marker(row) ==
    IF row.direction = "LONG"
    THEN [position |-> row.Low * 99, color |-> "green", symbol |-> "triangle-up"]
    ELSE IF row.direction = "SHORT"
         THEN [position |-> row.High * 101, color |-> "red",
               symbol |-> "triangle-down"]
         ELSE [position |-> row.Close * 100, color |-> "yellow",
               symbol |-> "circle"]

calculate_direction_markers(d) ==
    [positions |-> [k \in 1..Len(d) |-> direction_marker(d[k]).position],
     colors    |-> [k \in 1..Len(d) |-> direction_marker(d[k]).color],
     symbols   |-> [k \in 1..Len(d) |-> direction_marker(d[k]).symbol]]

(***************************************************************************)
(* The query responder: TSLChatbot.generate_response.                      *)
(***************************************************************************)
\* sub in s
Contains(s, sub) ==
    \E i \in 1..(Len(s) - Len(sub) + 1) : SubSeq(s, i, i + Len(sub) - 1) = sub

RateLimitCode == <<"4", "2", "9">>

RateLimitAdvice ==
    <<"R", "a", "t", "e", " ", "l", "i", "m", "i", "t", " ", "e",
      "x", "c", "e", "e", "d", "e", "d", ".", " ", "P", "l", "e",
      "a", "s", "e", " ", "w", "a", "i", "t", " ", "a", " ", "m",
      "i", "n", "u", "t", "e", " ", "b", "e", "f", "o", "r", "e",
      " ", "t", "r", "y", "i", "n", "g", " ", "a", "g", "a", "i",
      "n", ".">>

ErrorPrefix == <<"E", "r", "r", "o", "r", ":", " ">>

\* The remote call of one request: generate_content returns a reply whose
\* .text is `text`, or the try block raises an exception e with str(e) = text.
Reply(text)  == [kind |-> "reply", text |-> text]
Failure(text) == [kind |-> "error", text |-> text]

\* (variant: only the rate limit is recovered, any other error is raised)
handle_exception_reraise(text) ==
    IF Contains(text, RateLimitCode) THEN Returned(RateLimitAdvice)
    ELSE Raised(text)

\* (variant: the code is looked for at the start of the text only)
handle_exception_startswith(text) ==
    IF Len(text) >= 3 /\ SubSeq(text, 1, 3) = RateLimitCode
    THEN Returned(RateLimitAdvice)
    ELSE Returned(ErrorPrefix \o text)

\* The except clause.
handle_exception(text) ==
    IF Contains(text, RateLimitCode) THEN Returned(RateLimitAdvice)
    ELSE Returned(ErrorPrefix \o text)

generate_response(user_query, outcome) ==
    IF outcome.kind = "reply" THEN Returned(outcome.text)
    ELSE handle_exception(outcome.text)

(***************************************************************************)
(* The assistant view: the runs of main() under Streamlit's re-run model.  *)
(***************************************************************************)
MaxHistory == 4
MaxRequests == 2
MaxSubmitted == 2

ExampleQuestions ==
    << <<"Q", "1">>, <<"Q", "2">>, <<"Q", "3">>, <<"Q", "4">>, <<"Q", "5">>,
       <<"Q", "6">> >>

FreeTexts == { <<"h", "i">>, <<"Q", "1">> }

Outcomes == { Reply(<<"o", "k">>), Failure(<<"H", "T", "T", "P", "4", "2", "9">>),
              Failure(<<"d", "o", "w", "n">>) }

Message(role, content) == [role |-> role, content |-> content]

\* get_chatbot() under st.cache_resource: the cached TSLChatbot, or a new one,
\* whose constructor runs load_data; a constructor that raises caches nothing.
get_chatbot(cached_, file_) ==
    IF cached_ THEN Returned(<<>>) ELSE load_data(file_)

\* A run of main() is a sequence of steps.  The runtime stops a run when an
\* event of the session arrives, at the next place where the script touches
\* st.session_state or calls an st command; generate_response has no such
\* place, so a call under way completes.  run.pc is the place of the run:
\*   "chart"          the chart tab (lines 162-177)
\*   "buttons"        the loop over the example buttons (lines 193-195)
\*   "button_call"    in chatbot.generate_response (line 196)
\*   "button_answer"  at the append of the answer (line 197)
\*   "input"          the transcript and the text input (lines 199-210)
\*   "spinner"        entering the st.spinner block (line 211)
\*   "text_call"      in chatbot.generate_response (line 212)
\*   "text_answer"    at the append of the answer (line 213)
\*   "spinner_exit"   leaving the st.spinner block, before line 214
\* run.button is the index of the button pressed (0: none), run.response the
\* value generate_response returned.
NoRun == [pc |-> "idle", button |-> 0, response |-> <<>>]

At(pc) == run.pc = pc

\* The questions a run asks at most: a request and two entries of the
\* transcript each.
Questions(button, user_query) ==
    (IF button # 0 THEN 1 ELSE 0) + (IF user_query # <<>> THEN 1 ELSE 0)

\* The runtime starts a run of main() with the state of the widgets: the
\* button pressed, if any, and the value of the text input.
start_run(button, user_query) ==
    /\ At("idle")
    /\ Len(chat_history) + 2 * Questions(button, user_query) <= MaxHistory
    /\ requests + Questions(button, user_query) <= MaxRequests
    /\ run' = [NoRun EXCEPT !.pc = "chart", !.button = button]
    /\ user_input' = user_query
    /\ rerun' = FALSE
    /\ UNCHANGED <<chat_history, cached, requests, answered, loadVars,
                   frameVars, chatVars>>

\* The user presses the i-th example button.
PressButton ==
    \E i \in 1..Len(ExampleQuestions) :
        /\ submitted < MaxSubmitted
        /\ start_run(i, user_input)
        /\ submitted' = submitted + 1

\* The user enters a question in the text input.
SubmitText ==
    \E q \in FreeTexts :
        /\ q # user_input
        /\ submitted < MaxSubmitted
        /\ start_run(0, q)
        /\ submitted' = submitted + 1

\* The user empties the text input.
ClearText ==
    /\ user_input # <<>>
    /\ start_run(0, <<>>)
    /\ UNCHANGED submitted

\* The re-run st.experimental_rerun() queued: no widget has changed.
QueuedRerun ==
    /\ rerun
    /\ start_run(0, user_input)
    /\ UNCHANGED submitted

\* The user asks for a re-run (the Rerun command): no widget has changed.
ManualRerun ==
    /\ ~rerun
    /\ start_run(0, user_input)
    /\ UNCHANGED submitted

\* The chart tab: get_chatbot() inside the try; an exception is shown and
\* leaves `chatbot` unbound.  The chatbot is bound in the rest of the run
\* exactly when the cache holds it.
ChartTab ==
    /\ At("chart")
    /\ \E got \in {get_chatbot(cached, file)} :
         /\ cached' = ~got.raised
         /\ frames' = IF got.raised THEN <<>> ELSE create_candlestick_animation(df)
    /\ run' = [run EXCEPT !.pc = "buttons"]
    /\ UNCHANGED <<chat_history, user_input, rerun, submitted, requests,
                   answered, loadVars, anim_frames, markers, fb_pc, chatVars>>

\* The loop over the example buttons: the question of the pressed button is
\* appended and chatbot.generate_response called.  With `chatbot` unbound the
\* call raises NameError and ends the run; culled: the runtime drops the state
\* of the text input, which the run has not drawn.
ButtonLoop ==
    /\ At("buttons")
    /\ IF run.button = 0
       THEN /\ run' = [run EXCEPT !.pc = "input"]
            /\ UNCHANGED <<chat_history, user_input>>
       ELSE /\ chat_history' =
                   Append(chat_history,
                          Message("user", ExampleQuestions[run.button]))
            /\ IF cached
               THEN /\ run' = [run EXCEPT !.pc = "button_call"]
                    /\ UNCHANGED user_input
               ELSE /\ run' = NoRun
                    /\ \E culled \in BOOLEAN :
                         user_input' = IF culled THEN <<>> ELSE user_input
    /\ UNCHANGED <<cached, rerun, submitted, requests, answered, loadVars,
                   frameVars, chatVars>>

\* chatbot.generate_response(question) sends its request and returns.
respond(question, pc) ==
    \E outcome \in Outcomes :
      \E r \in {generate_response(question, outcome)} :
        /\ requests' = requests + 1
        /\ answered' = Append(answered, <<question, r.val>>)
        /\ run' = [run EXCEPT !.pc = pc, !.response = r.val]
        /\ UNCHANGED <<chat_history, user_input, cached, rerun, submitted,
                       loadVars, frameVars, chatVars>>

ButtonResponse ==
    /\ At("button_call")
    /\ respond(ExampleQuestions[run.button], "button_answer")

\* The answer is appended; the loop goes on (no other button is pressed).
ButtonAnswer ==
    /\ At("button_answer")
    /\ chat_history' = Append(chat_history, Message("assistant", run.response))
    /\ run' = [run EXCEPT !.pc = "input", !.response = <<>>]
    /\ UNCHANGED <<user_input, cached, rerun, submitted, requests, answered,
                   loadVars, frameVars, chatVars>>

\* The text input: a non-empty value is appended to the transcript.
TextInput ==
    /\ At("input")
    /\ IF user_input = <<>>
       THEN /\ run' = NoRun
            /\ UNCHANGED chat_history
       ELSE /\ chat_history' = Append(chat_history, Message("user", user_input))
            /\ run' = [run EXCEPT !.pc = "spinner"]
    /\ UNCHANGED <<user_input, cached, rerun, submitted, requests, answered,
                   loadVars, frameVars, chatVars>>

\* Inside the spinner chatbot.generate_response is called; with `chatbot`
\* unbound the call raises NameError and ends the run.
TextCall ==
    /\ At("spinner")
    /\ run' = IF cached THEN [run EXCEPT !.pc = "text_call"] ELSE NoRun
    /\ UNCHANGED <<chat_history, user_input, cached, rerun, submitted,
                   requests, answered, loadVars, frameVars, chatVars>>

TextResponse ==
    /\ At("text_call")
    /\ respond(user_input, "text_answer")

\* The answer is appended, the last statement of the spinner block.
TextAnswer ==
    /\ At("text_answer")
    /\ chat_history' = Append(chat_history, Message("assistant", run.response))
    /\ run' = [run EXCEPT !.pc = "spinner_exit", !.response = <<>>]
    /\ UNCHANGED <<user_input, cached, rerun, submitted, requests, answered,
                   loadVars, frameVars, chatVars>>

\* st.experimental_rerun() ends the run and queues the next one.
ExperimentalRerun ==
    /\ At("spinner_exit")
    /\ rerun' = TRUE
    /\ run' = NoRun
    /\ UNCHANGED <<chat_history, user_input, cached, submitted, requests,
                   answered, loadVars, frameVars, chatVars>>

\* An event of the session arrives during the run: the runtime stops the run
\* where it is, and the state of the session stays as the run left it.
StopRun ==
    /\ run.pc \in {"chart", "buttons", "button_answer", "input", "spinner",
                  "text_answer", "spinner_exit"}
    /\ run' = NoRun
    /\ UNCHANGED <<chat_history, user_input, cached, rerun, submitted,
                   requests, answered, loadVars, frameVars, chatVars>>

(***************************************************************************)
(* Files.                                                                  *)
(***************************************************************************)
MaxRows == 11
Period  == 2
DirPeriod == 3

\* Timestamps out of order and with ties: 4, 2, 5, 3, 1, 4, 2, ...
TimestampOf(k) == ((k * 3) % 5) + 1

\* The Resistance cell that goes with a Support cell in the files below.
ResistanceFor(c) ==
    IF c = StrCell(EmptyListText) THEN StrCell(<<"[", "1", "]">>)
    ELSE IF c = StrCell(<<"[", "1", "]">>) THEN StrCell(<<"[", "2", ",", "1", "]">>)
    ELSE IF c = StrCell(<<"[", "2", ",", "1", "]">>) THEN StrCell(<<"1", ",", "2">>)
    ELSE StrCell(EmptyListText)

\* The file of n rows whose k-th row takes its direction from the pattern
\* dirs and its Support cell from the pattern cells.
PatternFile(n, dirs, cells) ==
    [k \in 1..n |->
        RawRow(k, TimestampOf(k), dirs[((k - 1) % Len(dirs)) + 1],
               cells[((k - 1) % Len(cells)) + 1],
               ResistanceFor(cells[((k - 1) % Len(cells)) + 1]))]

\* The sizes of the files: one row, one row short of the first frame, and
\* every size from the first frame on.
RowCounts == {1, MinFrame - 1} \cup (MinFrame..MaxRows)

DirPatterns  == [1..DirPeriod -> Directions]
CellPatterns == [1..Period -> ListCells]

\* A list field, and a field that holds a number.
BaseCells == {BaseCell, StrCell(<<"2">>)}

\* A file for the loaders: one field of the column col is any field, the
\* other fields of that column are base, and every field of the other list
\* column is BaseCell.
LoadFile(n, ts, r, col, c, base) ==
    [k \in 1..n |->
        RawRow(k, ts[k], IF k % 2 = 1 THEN "LONG" ELSE "NaN",
               IF col # "Support" THEN BaseCell ELSE IF k = r THEN c ELSE base,
               IF col # "Resistance" THEN BaseCell ELSE IF k = r THEN c ELSE base)]

NoCall   == [question |-> <<>>, outcome |-> Reply(<<>>), asked |-> FALSE]
NoResult == [done |-> FALSE, raised |-> FALSE, val |-> <<>>]
NoMarkerLists == [positions |-> <<>>, colors |-> <<>>, symbols |-> <<>>]

IdleLoad  == file = <<>> /\ df = <<>> /\ load_pc = "init"
IdleBuild == frames = <<>> /\ anim_frames = <<>> /\ markers = NoMarkerLists
             /\ fb_pc = {}
IdleChat  == call = NoCall /\ result = NoResult
IdleApp   == /\ chat_history = <<>> /\ user_input = <<>> /\ cached = FALSE
             /\ rerun = FALSE /\ submitted = 0 /\ requests = 0
             /\ answered = <<>> /\ run = NoRun

(***************************************************************************)
(* SpecLoad: a file is read by one of the two loaders; the builders of     *)
(* data_processor.py then run on the table load_tsla_data returned.        *)
(***************************************************************************)
InitLoad ==
    /\ \E n \in 1..MaxLoadRows :
         \E ts \in [1..n -> 1..MaxTime], r \in 1..n,
            col \in {"Support", "Resistance"}, c \in Cells, base \in BaseCells :
             file = LoadFile(n, ts, r, col, c, base)
    /\ df = <<>> /\ load_pc = "init"
    /\ IdleBuild /\ IdleChat /\ IdleApp

LoadData ==
    /\ load_pc = "init"
    /\ LET got == load_data(file) IN
         /\ load_pc' = IF got.raised THEN "raised" ELSE "chatbot"
         /\ df' = got.val
    /\ UNCHANGED <<file, frameVars, chatVars, appVars>>

LoadTslaData ==
    /\ load_pc = "init"
    /\ \E got \in load_tsla_data(file) :
         /\ load_pc' = IF got.raised THEN "raised" ELSE "data_processor"
         /\ df' = got.val
    /\ UNCHANGED <<file, frameVars, chatVars, appVars>>

GetAnimationFrames ==
    /\ load_pc = "data_processor"
    /\ "get_animation_frames" \notin fb_pc
    /\ anim_frames' = get_animation_frames(df)
    /\ fb_pc' = fb_pc \cup {"get_animation_frames"}
    /\ UNCHANGED <<loadVars, frames, markers, chatVars, appVars>>

CalculateDirectionMarkers ==
    /\ load_pc = "data_processor"
    /\ "calculate_direction_markers" \notin fb_pc
    /\ markers' = calculate_direction_markers(df)
    /\ fb_pc' = fb_pc \cup {"calculate_direction_markers"}
    /\ UNCHANGED <<loadVars, frames, anim_frames, chatVars, appVars>>

NextLoad ==
    \/ LoadData
    \/ LoadTslaData
    \/ GetAnimationFrames
    \/ CalculateDirectionMarkers

SpecLoad == InitLoad /\ [][NextLoad]_vars

(***************************************************************************)
(* SpecFrames: the chart tab builds the frames of chatbot.df.              *)
(***************************************************************************)
InitFrames ==
    /\ \E n \in RowCounts, dirs \in DirPatterns, cells \in CellPatterns :
         /\ file = PatternFile(n, dirs, cells)
         /\ df = load_data(file).val
    /\ load_pc = "chatbot"
    /\ IdleBuild /\ IdleChat /\ IdleApp

CreateCandlestickAnimation ==
    /\ load_pc = "chatbot"
    /\ "create_candlestick_animation" \notin fb_pc
    /\ frames' = create_candlestick_animation(df)
    /\ fb_pc' = fb_pc \cup {"create_candlestick_animation"}
    /\ UNCHANGED <<loadVars, anim_frames, markers, chatVars, appVars>>

NextFrames == CreateCandlestickAnimation

SpecFrames == InitFrames /\ [][NextFrames]_vars

(***************************************************************************)
(* SpecChat: one call of generate_response, for every outcome of the       *)
(* remote call.                                                            *)
(***************************************************************************)
MaxTextLen == 4

TextChars == {"4", "2", "9", "x"}

RECURSIVE RemoteTextsOfLen(_)
RemoteTextsOfLen(k) ==
    IF k = 0 THEN {<<>>}
    ELSE {Append(s, c) : s \in RemoteTextsOfLen(k - 1), c \in TextChars}

RemoteTexts == UNION {RemoteTextsOfLen(k) : k \in 0..MaxTextLen}

InitChat ==
    /\ \E q \in FreeTexts, text \in RemoteTexts, kind \in {"reply", "error"} :
         call = [question |-> q, outcome |-> [kind |-> kind, text |-> text],
                 asked |-> TRUE]
    /\ result = NoResult
    /\ IdleLoad /\ IdleBuild /\ IdleApp

GenerateResponse ==
    /\ call.asked /\ ~result.done
    /\ LET r == generate_response(call.question, call.outcome) IN
         result' = [done |-> TRUE, raised |-> r.raised, val |-> r.val]
    /\ UNCHANGED <<call, loadVars, frameVars, appVars>>

NextChat == GenerateResponse

SpecChat == InitChat /\ [][NextChat]_vars

(***************************************************************************)
(* Spec: a session of the dashboard.  The first run of main() has drawn    *)
(* the page: the text input is empty, no button has been pressed and no    *)
(* run is in progress.                                                     *)
(***************************************************************************)
GoodFile == PatternFile(MinFrame, <<"LONG", "SHORT", "NaN">>,
                        <<StrCell(<<"[", "1", "]">>), StrCell(EmptyListText)>>)

\* The same file with the Support field of its first row left empty.
BadFile == [GoodFile EXCEPT ![1].Support = NaNCell]

Init ==
    /\ file \in {GoodFile, BadFile}
    /\ load_pc = IF load_data(file).raised THEN "raised" ELSE "chatbot"
    /\ df = load_data(file).val
    /\ cached = ~load_data(file).raised
    /\ frames = IF cached THEN create_candlestick_animation(df) ELSE <<>>
    /\ anim_frames = <<>> /\ markers = NoMarkerLists /\ fb_pc = {}
    /\ IdleChat
    /\ chat_history = <<>> /\ user_input = <<>> /\ rerun = FALSE
    /\ submitted = 0 /\ requests = 0 /\ answered = <<>> /\ run = NoRun

Next ==
    \/ PressButton
    \/ SubmitText
    \/ ClearText
    \/ QueuedRerun
    \/ ManualRerun
    \/ ChartTab
    \/ ButtonLoop
    \/ ButtonResponse
    \/ ButtonAnswer
    \/ TextInput
    \/ TextCall
    \/ TextResponse
    \/ TextAnswer
    \/ ExperimentalRerun
    \/ StopRun

Spec == Init /\ [][Next]_vars

(***************************************************************************)
(* Properties of the frame builder (SpecFrames).                           *)
(***************************************************************************)
Built == "create_candlestick_animation" \in fb_pc

Smaller(a, b) == IF a < b THEN a ELSE b

\* The place of r among the elements of S in increasing order.
Rank(S, r) == Cardinality({q \in S : q <= r})

SetMax(S) == CHOOSE v \in S : \A w \in S : w <= v
SetMin(S) == CHOOSE v \in S : \A w \in S : v <= w

\* The rows of the prefix of length i that hold a non-empty list in col.
ListRows(i, col) ==
    {k \in 1..i : df[k][col].t = "list" /\ df[k][col].items # <<>>}

Numbers(v) == {v.items[n].n : n \in 1..Len(v.items)}

\* The place of a column's band among the traces of a frame.
BandPlace(col) == IF col = "Support" THEN 2 ELSE 3

BandColumns == {"Support", "Resistance"}

\* C1: for a table of N rows the builder yields exactly one frame for every
\* prefix length from min(10, N) up to N, in increasing order; a table of
\* fewer than 10 rows yields one frame, of prefix length N.
C1_OneFramePerPrefixFromMinTenOrN ==
    Built =>
        LET n     == Len(df)
            first == Smaller(MinFrame, n)
        IN  /\ Len(frames) = n - first + 1
            /\ \A j \in 1..Len(frames) : frames[j].name = first + j - 1

\* C7: with k >= 1 rows of the prefix holding a non-empty list, the band of
\* Frame(i) has x = xs ++ reverse(xs) and y = ys_upper ++ reverse(ys_lower),
\* xs, ys_upper, ys_lower being the timestamp, max and min of those rows in
\* table order; both have length 2k, and a single-element list gives equal
\* upper and lower values at its row.
C7_BandPolygon ==
    \A j \in 1..Len(frames), col \in BandColumns :
        LET rows == ListRows(frames[j].name, col)
            k    == Cardinality(rows)
            band == frames[j].data[BandPlace(col)]
        IN  k >= 1 =>
              /\ Len(band.x) = 2 * k
              /\ Len(band.y) = 2 * k
              /\ \A r \in rows :
                   LET row == df[r]
                       m   == Rank(rows, r)
                   IN
                   /\ band.x[m] = row.timestamp
                   /\ band.x[2 * k + 1 - m] = row.timestamp
                   /\ band.y[m] = SetMax(Numbers(row[col]))
                   /\ band.y[2 * k + 1 - m] = SetMin(Numbers(row[col]))
                   /\ Len(row[col].items) = 1 =>
                        band.y[m] = band.y[2 * k + 1 - m]

\* A frame whose support band covers a single-element list and a list whose
\* max and min differ.
C7_Witness ==
    \E j \in 1..Len(frames) :
        LET rows == ListRows(frames[j].name, "Support")
            band == frames[j].data[2]
        IN  /\ \E k \in rows : Len(df[k].Support.items) = 1
            /\ \E k \in rows : Len(df[k].Support.items) = 2
            /\ \E m \in 1..Cardinality(rows) :
                 band.y[m] # band.y[2 * Cardinality(rows) + 1 - m]

\* C8 as stated: a row with an empty list adds no entry to the band, and the
\* band trace is absent from the frame exactly when no row of the prefix has
\* a non-empty list.
C8_BandAbsentWithoutLists ==
    \A j \in 1..Len(frames), col \in BandColumns :
        LET rows == ListRows(frames[j].name, col) IN
        /\ rows # {} =>
             /\ Len(frames[j].data) = 6
             /\ Len(frames[j].data[BandPlace(col)].x) = 2 * Cardinality(rows)
        /\ rows = {} => Len(frames[j].data) < 6

\* C8, amended: a row with an empty list adds no entry to the band; every
\* frame carries all six traces, and the band trace is the empty trace
\* (x = [] and y = []) exactly when no row of the prefix has a non-empty
\* list.
C8_BandEmptyWithoutLists ==
    \A j \in 1..Len(frames), col \in BandColumns :
        LET rows == ListRows(frames[j].name, col)
            band == frames[j].data[BandPlace(col)]
        IN  /\ Len(frames[j].data) = 6
            /\ Len(band.x) = 2 * Cardinality(rows)
            /\ Len(band.y) = 2 * Cardinality(rows)
            /\ (band.x = <<>> /\ band.y = <<>>) <=> rows = {}

\* A frame whose prefix has rows with an empty Support list and none with a
\* non-empty one, while its resistance band is drawn.
C8_Witness ==
    \E j \in 1..Len(frames) :
        /\ ListRows(frames[j].name, "Support") = {}
        /\ \E k \in 1..frames[j].name : df[k].Support = PyList(<<>>)
        /\ frames[j].data[2].x = <<>>
        /\ frames[j].data[3].x # <<>>

\* The rows of the prefix of length i with a direction of the set D.
DirectionRows(i, D) == {k \in 1..i : df[k].direction \in D}

\* The trace holds exactly the rows of the set, in table order, each at
\* (timestamp, its price field times scale hundredths).
MarkersAre(trace, rows, field, scale) ==
    /\ Len(trace.x) = Cardinality(rows)
    /\ Len(trace.y) = Cardinality(rows)
    /\ \A r \in rows :
         /\ trace.x[Rank(rows, r)] = df[r].timestamp
         /\ trace.y[Rank(rows, r)] = df[r][field] * scale

\* C9: in every Frame(i) each prefix row is in exactly one marker group:
\* LONG rows in the LONG group at (timestamp, low*0.99), SHORT rows in the
\* SHORT group at (timestamp, high*1.01), every other row (a missing
\* direction too) in the neutral group at (timestamp, close); the sizes of
\* the groups sum to i.
C9_MarkerPartition ==
    \A j \in 1..Len(frames) :
        LET i == frames[j].name
            d == frames[j].data
        IN  /\ MarkersAre(d[4], DirectionRows(i, {"LONG"}), "low", 99)
            /\ MarkersAre(d[5], DirectionRows(i, {"SHORT"}), "high", 101)
            /\ MarkersAre(d[6], DirectionRows(i, Directions \ {"LONG", "SHORT"}),
                          "close", 100)
            /\ Len(d[4].x) + Len(d[5].x) + Len(d[6].x) = i

\* A frame with a LONG row, a SHORT row and a row whose direction is
\* missing, each drawn in its group.
C9_Witness ==
    \E j \in 1..Len(frames) :
        /\ frames[j].data[4].x # <<>>
        /\ frames[j].data[5].x # <<>>
        /\ frames[j].data[6].x # <<>>
        /\ \E k \in 1..frames[j].name : df[k].direction = "NaN"

(***************************************************************************)
(* Properties of the query responder (SpecChat).                           *)
(***************************************************************************)
\* C4: for every question and every outcome of the remote call (a reply, a
\* rate-limit error, any other error) generate_response returns a string to
\* its caller; no exception escapes it.
C4_AlwaysReturnsString ==
    result.done =>
        /\ ~result.raised
        /\ call.outcome.kind = "reply" => result.val = call.outcome.text

\* A call whose remote request failed with an error that is no rate limit,
\* and that returned all the same.
C4_Witness ==
    /\ result.done /\ ~result.raised
    /\ call.outcome.kind = "error"
    /\ call.outcome.text = <<"x", "x">>

Has429(text) ==
    \E i \in 1..Len(text) :
        /\ i + 2 <= Len(text)
        /\ text[i] = "4" /\ text[i + 1] = "2" /\ text[i + 2] = "9"

\* The last Len(text) characters of s are text.
EndsWith(s, text) ==
    /\ Len(s) >= Len(text)
    /\ \A i \in 1..Len(text) : s[Len(s) - Len(text) + i] = text[i]

\* C5: a caught error whose text contains "429" gives exactly the fixed
\* rate-limit advisory string, whatever the rest of the text; a caught error
\* whose text does not contain "429" gives a string that embeds the raw
\* error text.
C5_RateLimitAdviceOrRawError ==
    (result.done /\ call.outcome.kind = "error") =>
        IF Has429(call.outcome.text)
        THEN ~result.raised /\ result.val = RateLimitAdvice
        ELSE /\ ~result.raised
             /\ result.val # RateLimitAdvice
             /\ EndsWith(result.val, call.outcome.text)

\* An error text with "429" in its middle, answered by the advisory string.
C5_Witness ==
    /\ result.done
    /\ call.outcome = Failure(<<"x", "4", "2", "9">>)
    /\ result.val = RateLimitAdvice

(***************************************************************************)
(* Properties of the loaders (SpecLoad).                                   *)
(***************************************************************************)
\* C2: after the data loader finishes, the table handed to the frame builder
\* (chatbot.df) has its rows in non-decreasing timestamp order whatever the
\* order of the file, and rows with equal timestamps keep their file order.
C2_TableSortedStable ==
    load_pc = "chatbot" =>
        \A a, b \in 1..Len(df) :
            a < b => /\ df[a].timestamp <= df[b].timestamp
                     /\ df[a].timestamp = df[b].timestamp =>
                          df[a].index < df[b].index

\* A cell that is missing, is the text "[]", or is no Python expression.
Degenerate(c) == c.t = "nan" \/ c.text = EmptyListText \/ ~parse_text(c.text).ok

\* The loaded row that was the k-th row of the file.
LoadedRow(k) == df[CHOOSE j \in 1..Len(df) : df[j].index = k - 1]

\* C3: while loading, a Support or Resistance cell that is empty, missing,
\* the text "[]" or text that fails to parse as a list yields an empty
\* sequence for its row; the load never raises because of such a cell and
\* the remaining rows load normally.
C3_DegenerateCellYieldsEmptyList ==
    load_pc # "init" =>
        \A k \in 1..Len(file), col \in BandColumns :
            /\ Degenerate(file[k][col]) =>
                 /\ load_pc # "raised"
                 /\ LoadedRow(k)[col] = PyList(<<>>)
            /\ (file[k][col] = BaseCell /\ \E r \in 1..Len(file), c \in BandColumns :
                                              Degenerate(file[r][c])) =>
                 /\ load_pc # "raised"
                 /\ LoadedRow(k)[col] = PyList(<<PyInt(1), PyInt(2)>>)

(***************************************************************************)
(* Properties of the assistant view (Spec).                                *)
(***************************************************************************)
\* C6: across any sequence of re-runs of the view, each question the user
\* submits (a press of an example button, or an entry in the text input)
\* causes exactly one remote request and a re-run without a new submission
\* causes none, so the requests never exceed the submitted questions.
C6_OneRequestPerSubmission ==
    requests <= submitted

\* C10: after any sequence of runs (runs in which constructing the chatbot
\* failed in the chart tab too), with no run in progress, chat_history is a
\* sequence of question and
\* answer pairs: its length is even, user and assistant entries alternate,
\* and every user entry is followed by the assistant entry holding the
\* answer returned for that question.
C10_TranscriptIsPairs ==
    At("idle") =>
    /\ Len(chat_history) = 2 * Len(answered)
    /\ \A j \in 1..Len(answered) :
         /\ chat_history[2 * j - 1] = Message("user", answered[j][1])
         /\ chat_history[2 * j] = Message("assistant", answered[j][2])

====
